---- MODULE Spec2Model ----
(***************************************************************************)
(* A model of the Zabbix sender: the Sender's host fallback and cache      *)
(* (Send), the redirect-following drive (sendWithRedirects), the single    *)
(* exchange (sendOnce), the callers SendMetrics and RegisterHost, and the  *)
(* parser of the statistics of a Response (GetInfo).                       *)
(*                                                                         *)
(* Go strings that the code inspects character by character (addresses,    *)
(* info strings) are sequences of one-character strings; "" is <<>>.  One  *)
(* step of the model is one API call up to its first network exchange, or  *)
(* one network exchange (sendOnce) together with all the code that runs    *)
(* after it up to the next exchange or the return of the API call.         *)
(*                                                                         *)
(* Two parts have steps of their own: the request frame written for a      *)
(* Packet (DataLen, with byte counts of 64 bits), and Send called on two    *)
(* goroutines at once, where one step is one load or store of a word of    *)
(* Sender.PrimaryHost.                                                     *)
(***************************************************************************)
EXTENDS Integers, Sequences, FiniteSets, TLC

\* ------------------------------------------------------------------ bounds
\* Longest configured address list.
MaxHosts == 2
\* Largest MaxRedirects a Sender is configured with.
MaxMaxRedirects == 1
\* Longest metric batch handed to SendMetrics.
MaxBatch == 2
\* Most segments of an info string handed to GetInfo.
MaxSegments == 4

\* ------------------------------------------------------- strings, addresses
RECURSIVE SeqsUpTo(_, _)
SeqsUpTo(S, n) ==
    IF n = 0 THEN {<<>>}
    ELSE LET shorter == SeqsUpTo(S, n - 1)
         IN  shorter \cup {Append(s, x) : s \in {t \in shorter : Len(t) = n - 1}, x \in S}

Last(s) == s[Len(s)]

SetMin(S) == CHOOSE x \in S : \A y \in S : x <= y
SetMax(S) == CHOOSE x \in S : \A y \in S : x >= y

\* strings.Contains(s, c) for a one-character c
Contains(s, c) == \E i \in 1..Len(s) : s[i] = c

\* strings.TrimSpace
TrimSpace(s) ==
    LET keep == {i \in 1..Len(s) : s[i] # " "}
    IN  IF keep = {} THEN <<>> ELSE SubSeq(s, SetMin(keep), SetMax(keep))

\* the port appended to an address that has none
DefaultPort == <<"1", "0", "0", "5", "1">>

normalizeHost(addr) ==
    LET a == TrimSpace(addr)
    IN  IF a = <<>> THEN a
        ELSE IF Contains(a, ":") THEN a
        ELSE a \o <<":">> \o DefaultPort

\* net.SplitHostPort on addresses without brackets: the port follows the last
\* colon; no colon, or a colon inside the host, is an error.
SplitHostPort(hostport) ==
    LET colons == {i \in 1..Len(hostport) : hostport[i] = ":"}
    IN  IF colons = {}
        THEN [host |-> <<>>, port |-> <<>>, err |-> TRUE]
        ELSE LET i == SetMax(colons)
                 host == SubSeq(hostport, 1, i - 1)
             IN  IF Contains(host, ":")
                 THEN [host |-> <<>>, port |-> <<>>, err |-> TRUE]
                 ELSE [host |-> host, port |-> SubSeq(hostport, i + 1, Len(hostport)),
                       err |-> FALSE]

\* strings.Split(s, c) for a one-character c: the pieces between the c's, one
\* more than there are c's
RECURSIVE Split(_, _)
Split(s, c) ==
    LET at == {i \in 1..Len(s) : s[i] = c}
    IN  IF at = {} THEN <<s>>
        ELSE <<SubSeq(s, 1, SetMin(at) - 1)>>
                 \o Split(SubSeq(s, SetMin(at) + 1, Len(s)), c)

Digits == {"0", "1", "2", "3", "4", "5", "6", "7", "8", "9"}

DigitValue(c) ==
    CASE c = "0" -> 0 [] c = "1" -> 1 [] c = "2" -> 2 [] c = "3" -> 3
      [] c = "4" -> 4 [] c = "5" -> 5 [] c = "6" -> 6 [] c = "7" -> 7
      [] c = "8" -> 8 [] c = "9" -> 9

\* the number a string of digits denotes
RECURSIVE Decimal(_)
Decimal(s) ==
    IF s = <<>> THEN 0
    ELSE 10 * Decimal(SubSeq(s, 1, Len(s) - 1)) + DigitValue(s[Len(s)])

\* strconv.Atoi: an optional sign, then one or more digits; on a syntax error
\* the number returned is 0. (The strings of the model are too short for the
\* range error of a number that does not fit 64 bits.)
Atoi(s) ==
    LET signed == s # <<>> /\ s[1] \in {"+", "-"}
        body == IF signed THEN Tail(s) ELSE s
    IN  IF body = <<>> \/ \E i \in 1..Len(body) : body[i] \notin Digits
        THEN [n |-> 0, err |-> TRUE]
        ELSE [n |-> IF signed /\ s[1] = "-" THEN 0 - Decimal(body) ELSE Decimal(body),
              err |-> FALSE]

\* n followed by k zeros
RECURSIVE Shift(_, _)
Shift(n, k) == IF k = 0 THEN n ELSE Shift(10 * n, k - 1)

\* strconv.ParseFloat on decimal notation, then time.Duration(int64(f * 1e9)):
\* an optional sign, digits with at most one point and at least one digit.
\* The duration is kept as whole seconds and the nanoseconds beyond them
\* (the first nine decimals, the rest cut off), sign apart.
ParseSeconds(s) ==
    LET signed == s # <<>> /\ s[1] \in {"+", "-"}
        body == IF signed THEN Tail(s) ELSE s
        points == {i \in 1..Len(body) : body[i] = "."}
        point == IF points = {} THEN Len(body) + 1 ELSE SetMin(points)
        whole == SubSeq(body, 1, point - 1)
        decimals == SubSeq(body, point + 1, Len(body))
        nine == SubSeq(decimals, 1, IF Len(decimals) < 9 THEN Len(decimals) ELSE 9)
    IN  IF \/ Cardinality(points) > 1
           \/ whole \o decimals = <<>>
           \/ \E i \in 1..Len(whole) : whole[i] \notin Digits
           \/ \E i \in 1..Len(decimals) : decimals[i] \notin Digits
        THEN [d |-> [negative |-> FALSE, s |-> 0, ns |-> 0], err |-> TRUE]
        ELSE [d |-> [negative |-> signed /\ s[1] = "-", s |-> Decimal(whole),
                     ns |-> Shift(Decimal(nine), 9 - Len(nine))],
              err |-> FALSE]

\* ------------------------------------------------------------------ errors
Nil == [kind |-> "nil"]
Err(kind) == [kind |-> kind]

\* parseHostPort as it would be without the normalization: the address as
\* received, accepted when it contains a colon
parseHostPortAsReceived(addr) ==
    IF ~Contains(addr, ":")
    THEN [addr |-> <<>>, err |-> Err("invalid redirect address")]
    ELSE [addr |-> addr, err |-> Nil]

parseHostPort(addr) ==
    LET a == normalizeHost(addr)
        s == SplitHostPort(a)
    IN  IF s.err \/ s.host = <<>> \/ s.port = <<>>
        THEN [addr |-> <<>>, err |-> Err("invalid redirect address")]
        ELSE [addr |-> a, err |-> Nil]

\* ---------------------------------------------------------- wire data types
\* Response.Redirect is a pointer: present is FALSE for nil.
NoRedirect == [present |-> FALSE, Address |-> <<>>]
Redirect(address) == [present |-> TRUE, Address |-> address]

\* the zero Response
ZeroResponse == [Response |-> "", Info |-> <<>>, Redirect |-> NoRedirect]

NewMetric(host, key, value, agentActive) ==
    [Host |-> host, Key |-> key, Value |-> value, Active |-> agentActive]

NewPacket(data, agentActive) ==
    [Request |-> IF agentActive THEN "agent data" ELSE "sender data",
     Data |-> data, Host |-> "", HostMetadata |-> ""]

NoPacket == [Request |-> "", Data |-> <<>>, Host |-> "", HostMetadata |-> ""]

\* ------------------------------------------------------------------ GetInfo
\* the zero ResponseInfo
NewResponseInfo ==
    [Processed |-> 0, Failed |-> 0, Total |-> 0,
     Spent |-> [negative |-> FALSE, s |-> 0, ns |-> 0]]

\* the nil *ResponseInfo
NilResponseInfo == [nil |-> TRUE]

KeyProcessed == <<"p", "r", "o", "c", "e", "s", "s", "e", "d">>
KeyFailed == <<"f", "a", "i", "l", "e", "d">>
KeyTotal == <<"t", "o", "t", "a", "l">>
KeySecondsSpent == <<"s", "e", "c", "o", "n", "d", "s", " ", "s", "p", "e", "n", "t">>

\* the loop of GetInfo over the segments sp, from segment i, with the
\* statistics ret filled so far; the err of strconv.Atoi is assigned and
\* never looked at
RECURSIVE GetInfoLoop(_, _, _)
GetInfoLoop(sp, i, ret) ==
    IF i > Len(sp) THEN [ret |-> ret, err |-> Nil]
    ELSE LET sp2 == Split(sp[i], ":")
         IN  IF Len(sp2) # 2
             THEN [ret |-> NilResponseInfo, err |-> Err("expected 2")]
             ELSE LET key == TrimSpace(sp2[1])
                      value == TrimSpace(sp2[2])
                  IN  IF key = KeyProcessed
                      THEN GetInfoLoop(sp, i + 1, [ret EXCEPT !.Processed = Atoi(value).n])
                      ELSE IF key = KeyFailed
                      THEN GetInfoLoop(sp, i + 1, [ret EXCEPT !.Failed = Atoi(value).n])
                      ELSE IF key = KeyTotal
                      THEN GetInfoLoop(sp, i + 1, [ret EXCEPT !.Total = Atoi(value).n])
                      ELSE IF key = KeySecondsSpent
                      THEN IF ParseSeconds(value).err
                           THEN [ret |-> NilResponseInfo,
                                 err |-> Err("parsing seconds spent")]
                           ELSE GetInfoLoop(sp, i + 1,
                                            [ret EXCEPT !.Spent = ParseSeconds(value).d])
                      ELSE GetInfoLoop(sp, i + 1, ret)

\* Response.GetInfo
GetInfo(r) ==
    IF r.Response # "success"
    THEN [ret |-> NilResponseInfo, err |-> Err("response not success")]
    ELSE LET sp == Split(r.Info, ";")
         IN  IF Len(sp) # 4
             THEN [ret |-> NilResponseInfo, err |-> Err("expected 4")]
             ELSE GetInfoLoop(sp, 1, NewResponseInfo)

\* ------------------------------------------------------------- input sets
\* an info string as a collector composes it: segments "key: value" joined
\* with "; "
Segment(key, value) == [key |-> key, value |-> value]

SegmentPool ==
    {Segment(KeyProcessed, <<"1">>), Segment(KeyProcessed, <<"x">>),
     Segment(KeyFailed, <<"0">>), Segment(KeyFailed, <<":">>),
     Segment(KeyTotal, <<"1">>), Segment(KeyTotal, <<>>),
     Segment(KeySecondsSpent, <<"0", ".", "1">>),
     Segment(KeySecondsSpent, <<"x">>)}

RECURSIVE InfoString(_)
InfoString(segments) ==
    IF segments = <<>> THEN <<>>
    ELSE LET n == Len(segments)
             text == segments[n].key \o <<":", " ">> \o segments[n].value
         IN  IF n = 1 THEN text
             ELSE InfoString(SubSeq(segments, 1, n - 1)) \o <<";", " ">> \o text

\* address strings handed to the constructors
HostInputs == {<<"a">>, <<"b", ":", "1">>}

\* any strings a caller may hand to the constructors or store in PrimaryHost:
\* the above, the empty string, and a string with only a port
AnyInputs == HostInputs \cup {<<>>, <<":", "1">>}

\* address strings a collector puts in a redirect descriptor
RedirectAddresses ==
    {<<>>, <<"a", " ">>, <<"b", ":", "1">>, <<":", "1">>, <<"a", ":">>}

\* the Responses a collector's JSON body decodes to: a failure with every
\* redirect descriptor, a success without and with one, and a body without
\* any of the fields
Responses ==
    {[Response |-> "failed", Info |-> <<>>, Redirect |-> r] :
        r \in {NoRedirect} \cup {Redirect(a) : a \in RedirectAddresses}}
    \cup {[Response |-> "success", Info |-> <<>>, Redirect |-> NoRedirect],
          [Response |-> "success", Info |-> <<>>, Redirect |-> Redirect(<<"b", ":", "1">>)],
          ZeroResponse}

MetricPool == {NewMetric("h", "k", "1", TRUE), NewMetric("h", "k", "1", FALSE)}

\* the metrics of the batches handed to SendMetrics: two active ones and a
\* trapper one
BatchMetrics ==
    {NewMetric("h", "k1", "1", TRUE), NewMetric("h", "k2", "1", TRUE),
     NewMetric("h", "k1", "1", FALSE)}

\* -------------------------------------------------------------- the network
\* the reply frame: 5 bytes of header, 8 bytes of length, then the body
HeaderLen == 5
FrameLen == 13

\* the length of a reply long enough to hold a JSON body
FullReply == FrameLen + 2

\* What the network does to one exchange: whether the dial, the write and the
\* read succeed, and the reply read until the peer closes: its length in
\* bytes, whether its first 5 bytes are there and are the header, and its body
\* from offset 13: valid JSON, JSON with a syntax error (an empty body is
\* one), or JSON with a field of the wrong type (json.Unmarshal then leaves
\* the fields it could decode in body).
Exchange(dial, write, read, length, header, json, body) ==
    [dial |-> dial, write |-> write, read |-> read, length |-> length,
     header |-> header, json |-> json, body |-> body]

\* net.DialTimeout can connect only to host:port with a numeric port
Dialable(host) ==
    LET s == SplitHostPort(host)
    IN  /\ ~s.err
        /\ s.port # <<>>
        /\ \A i \in 1..Len(s.port) : s.port[i] \in Digits

PartialBodies == {[Response |-> "success", Info |-> <<>>, Redirect |-> NoRedirect]}

\* the bodies sent after a wrong header (TestInvalidResponseHeader sends a
\* success response after the header "BXD\x01")
SuccessBody == [Response |-> "success", Info |-> <<>>, Redirect |-> NoRedirect]

Exchanges(host) ==
    {Exchange(FALSE, FALSE, FALSE, 0, FALSE, "syntax", ZeroResponse)}
    \cup
    IF ~Dialable(host) THEN {}
    ELSE {Exchange(TRUE, FALSE, FALSE, 0, FALSE, "syntax", ZeroResponse),
          Exchange(TRUE, TRUE, FALSE, 0, FALSE, "syntax", ZeroResponse),
          Exchange(TRUE, TRUE, TRUE, HeaderLen - 2, FALSE, "syntax", ZeroResponse),
          Exchange(TRUE, TRUE, TRUE, FrameLen - 1, TRUE, "syntax", ZeroResponse),
          Exchange(TRUE, TRUE, TRUE, FullReply, FALSE, "ok", SuccessBody),
          Exchange(TRUE, TRUE, TRUE, FrameLen, TRUE, "syntax", ZeroResponse),
          Exchange(TRUE, TRUE, TRUE, FullReply, TRUE, "syntax", ZeroResponse)}
         \cup {Exchange(TRUE, TRUE, TRUE, FullReply, TRUE, "type", b) : b \in PartialBodies}
         \cup {Exchange(TRUE, TRUE, TRUE, FullReply, TRUE, "ok", b) : b \in Responses}

\* the connection of one sendOnce: whether net.DialTimeout opened one, the
\* number of conn.Write calls on it, and whether it was closed by the return
Conn(opened, requests, closed) ==
    [opened |-> opened, requests |-> requests, closed |-> closed]

\* sendOnce as it would be if it compared the header before testing the
\* length: response[:5] of a reply shorter than 5 bytes panics
sendOnceHeaderFirst(x) ==
    IF ~x.dial
    THEN [res |-> ZeroResponse, err |-> Err("connecting"), conn |-> Conn(FALSE, 0, FALSE)]
    ELSE IF ~x.write
    THEN [res |-> ZeroResponse, err |-> Err("sending the data"),
          conn |-> Conn(TRUE, 1, TRUE)]
    ELSE IF ~x.read
    THEN [res |-> ZeroResponse, err |-> Err("reading the response"),
          conn |-> Conn(TRUE, 1, TRUE)]
    ELSE IF x.length < HeaderLen
    THEN [res |-> ZeroResponse, err |-> Err("panic"), conn |-> Conn(TRUE, 1, TRUE)]
    ELSE IF ~x.header
    THEN [res |-> ZeroResponse, err |-> Err("got no valid header"),
          conn |-> Conn(TRUE, 1, TRUE)]
    ELSE IF x.length < FrameLen
    THEN [res |-> ZeroResponse, err |-> Err("response too short"),
          conn |-> Conn(TRUE, 1, TRUE)]
    ELSE IF x.json = "syntax"
    THEN [res |-> ZeroResponse, err |-> Err("not valid"), conn |-> Conn(TRUE, 1, TRUE)]
    ELSE IF x.json = "type"
    THEN [res |-> x.body, err |-> Err("not valid"), conn |-> Conn(TRUE, 1, TRUE)]
    ELSE [res |-> x.body, err |-> Nil, conn |-> Conn(TRUE, 1, TRUE)]

\* sendOnce as it would be if it closed the connection at the end of the
\* function instead of deferring the close: the error returns leave it open
sendOnceClosesAtEnd(x) ==
    IF ~x.dial
    THEN [res |-> ZeroResponse, err |-> Err("connecting"), conn |-> Conn(FALSE, 0, FALSE)]
    ELSE IF ~x.write
    THEN [res |-> ZeroResponse, err |-> Err("sending the data"),
          conn |-> Conn(TRUE, 1, FALSE)]
    ELSE IF ~x.read
    THEN [res |-> ZeroResponse, err |-> Err("reading the response"),
          conn |-> Conn(TRUE, 1, FALSE)]
    ELSE IF x.length < FrameLen
    THEN [res |-> ZeroResponse, err |-> Err("response too short"),
          conn |-> Conn(TRUE, 1, FALSE)]
    ELSE IF ~x.header
    THEN [res |-> ZeroResponse, err |-> Err("got no valid header"),
          conn |-> Conn(TRUE, 1, FALSE)]
    ELSE IF x.json = "syntax"
    THEN [res |-> ZeroResponse, err |-> Err("not valid"), conn |-> Conn(TRUE, 1, FALSE)]
    ELSE IF x.json = "type"
    THEN [res |-> x.body, err |-> Err("not valid"), conn |-> Conn(TRUE, 1, FALSE)]
    ELSE [res |-> x.body, err |-> Nil, conn |-> Conn(TRUE, 1, TRUE)]

\* sendOnce: one connection, one request, one reply. The deferred conn.Close
\* runs at every return after the dial succeeded; the reply is sliced only
\* after its length was tested.
sendOnce(x) ==
    IF ~x.dial
    THEN [res |-> ZeroResponse, err |-> Err("connecting"), conn |-> Conn(FALSE, 0, FALSE)]
    ELSE IF ~x.write
    THEN [res |-> ZeroResponse, err |-> Err("sending the data"),
          conn |-> Conn(TRUE, 1, TRUE)]
    ELSE IF ~x.read
    THEN [res |-> ZeroResponse, err |-> Err("reading the response"),
          conn |-> Conn(TRUE, 1, TRUE)]
    ELSE IF x.length < FrameLen
    THEN [res |-> ZeroResponse, err |-> Err("response too short"),
          conn |-> Conn(TRUE, 1, TRUE)]
    ELSE IF ~x.header
    THEN [res |-> ZeroResponse, err |-> Err("got no valid header"),
          conn |-> Conn(TRUE, 1, TRUE)]
    ELSE IF x.json = "syntax"
    THEN [res |-> ZeroResponse, err |-> Err("not valid"), conn |-> Conn(TRUE, 1, TRUE)]
    ELSE IF x.json = "type"
    THEN [res |-> x.body, err |-> Err("not valid"), conn |-> Conn(TRUE, 1, TRUE)]
    ELSE [res |-> x.body, err |-> Nil, conn |-> Conn(TRUE, 1, TRUE)]

\* -------------------------------------------------------------- the request
\* A byte count (a Go int, 64 bits) is kept as four 16-bit limbs, the least
\* significant first; bytes are numbers in 0..255.
Limb == 65536
Byte == 256

\* Sender.getHeader: "ZBXD\x01"
getHeader == <<90, 66, 88, 68, 1>>

\* uint32(n): the low 32 bits of n
Uint32(n) == <<n[1], n[2]>>

\* binary.LittleEndian.PutUint32(b, v): the 4 bytes of v into b[0..3]
PutUint32(b, v) ==
    [b EXCEPT ![1] = v[1] % Byte, ![2] = v[1] \div Byte,
              ![3] = v[2] % Byte, ![4] = v[2] \div Byte]

\* Packet.DataLen, for a Packet whose JSON encoding has bodyLen bytes: 8 zero
\* bytes, the first 4 overwritten with uint32(len(JSONData))
DataLen(bodyLen) == PutUint32([i \in 1..8 |-> 0], Uint32(bodyLen))

\* binary.LittleEndian.Uint64(b), as the reader of a request decodes the
\* length field
Uint64(b) ==
    <<b[1] + Byte * b[2], b[3] + Byte * b[4], b[5] + Byte * b[6], b[7] + Byte * b[8]>>

\* the buffer sendOnce writes: header, length field, then the body (kept as
\* its byte count)
Buffer(bodyLen) ==
    [header |-> getHeader, dataLen |-> DataLen(bodyLen), body |-> bodyLen]

\* limbs of the byte counts tried; the most significant limb of a Go int is
\* below 2^15, and no Packet encodes to zero bytes
LimbValues == {0, 64, Limb - 1}
TopLimbValues == {0, 64, (Limb \div 2) - 1}
BodyLengths ==
    {<<a, b, c, d>> : a \in LimbValues, b \in LimbValues, c \in LimbValues,
                       d \in TopLimbValues} \ {<<0, 0, 0, 0>>}

\* ------------------------------------------------------------------- state
VARIABLES
    Hosts,          \* Sender.Hosts
    PrimaryHost,    \* Sender.PrimaryHost, <<>> when no host is cached
    MaxRedirects,   \* Sender.MaxRedirects
    UpdateHost,     \* Sender.UpdateHost
    ConnectTimeout, \* Sender.ConnectTimeout, in seconds
    ReadTimeout,    \* Sender.ReadTimeout, in seconds
    WriteTimeout,   \* Sender.WriteTimeout, in seconds
    api,            \* the API call in progress or last returned, and its results
    send,           \* the frame of the Send in progress
    drive,          \* the frame of the sendWithRedirects in progress
    ended,          \* the sendWithRedirects that returned in the last step
    sends,          \* the Sends completed in this API call
    exchange,       \* the last sendOnce: the reply received and its connection
    open,           \* the number of connections opened and not closed
    getinfo,        \* a Response, and what GetInfo returned for it once called
    frame,          \* a Packet's body length, and the request written for it
    race            \* goroutines running Send concurrently, and s.PrimaryHost in memory

vars ==
    <<Hosts, PrimaryHost, MaxRedirects, UpdateHost, ConnectTimeout, ReadTimeout,
      WriteTimeout, api, send, drive, ended, sends, exchange, open, getinfo,
      frame, race>>

NoApi ==
    [op |-> "none", pc |-> "returned", rounds |-> 0, packet |-> NoPacket,
     metrics |-> <<>>, active |-> <<>>, trapper |-> <<>>, primaryAtCall |-> <<>>,
     res |-> ZeroResponse, err |-> Nil,
     resActive |-> ZeroResponse, errActive |-> Nil,
     resTrapper |-> ZeroResponse, errTrapper |-> Nil,
     attempts |-> 0, answers |-> <<>>, rejectedOnly |-> TRUE]

NoSend ==
    [active |-> FALSE, packet |-> NoPacket, primaryAtCall |-> <<>>,
     idx |-> 0, res |-> ZeroResponse, starts |-> <<>>, writes |-> 0]

NoDrive ==
    [active |-> FALSE, startHost |-> <<>>, currentHost |-> <<>>,
     redirectCount |-> 0, hops |-> <<>>]

NoEnded ==
    [valid |-> FALSE, startHost |-> <<>>, hops |-> <<>>,
     res |-> ZeroResponse, err |-> Nil]

NoGetInfo ==
    [called |-> FALSE, segments |-> <<>>, r |-> ZeroResponse,
     ret |-> NilResponseInfo, err |-> Nil]

\* no request written
NoFrame ==
    [written |-> FALSE, bodyLen |-> <<0, 0, 0, 0>>, header |-> <<>>,
     dataLen |-> <<>>, body |-> <<0, 0, 0, 0>>]

\* the goroutines that call Send on one Sender
Goroutines == {1, 2}

\* a goroutine that is not in Send
IdleProc ==
    [pc |-> "idle", len |-> 0, ptr |-> <<>>, toLoad |-> {}, idx |-> 0,
     startHost |-> <<>>, pending |-> {}, value |-> <<>>]

\* no goroutine in Send; s.PrimaryHost in memory is the empty string (a string
\* is two words: the pointer to its bytes, here the bytes themselves, and its
\* length)
NoRace == [procs |-> [p \in Goroutines |-> IdleProc], ptr |-> <<>>, len |-> 0]

\* no sendOnce made yet
NoExchange ==
    [valid |-> FALSE, received |-> FALSE, length |-> 0, header |-> FALSE,
     json |-> "syntax", conn |-> Conn(FALSE, 0, FALSE)]

\* the Sender and the frames of the calls on it as one record, for the
\* operators below
Machine ==
    [Hosts |-> Hosts, PrimaryHost |-> PrimaryHost, MaxRedirects |-> MaxRedirects,
     UpdateHost |-> UpdateHost, ConnectTimeout |-> ConnectTimeout,
     ReadTimeout |-> ReadTimeout, WriteTimeout |-> WriteTimeout,
     api |-> api, send |-> send, drive |-> drive, ended |-> ended,
     sends |-> sends, exchange |-> exchange, open |-> open]

Install(m) ==
    /\ Hosts' = m.Hosts
    /\ PrimaryHost' = m.PrimaryHost
    /\ MaxRedirects' = m.MaxRedirects
    /\ UpdateHost' = m.UpdateHost
    /\ ConnectTimeout' = m.ConnectTimeout
    /\ ReadTimeout' = m.ReadTimeout
    /\ WriteTimeout' = m.WriteTimeout
    /\ api' = m.api
    /\ send' = m.send
    /\ drive' = m.drive
    /\ ended' = m.ended
    /\ sends' = m.sends
    /\ exchange' = m.exchange
    /\ open' = m.open
    /\ UNCHANGED <<getinfo, frame, race>>

\* ------------------------------------------------------------ constructors
\* NewSenderHosts: every address normalized, order and duplicates kept
NewSenderHosts(hosts) == [i \in 1..Len(hosts) |-> normalizeHost(hosts[i])]

defaultConnectTimeout == 5
defaultWriteTimeout == 5
defaultReadTimeout == 15
defaultMaxRedirects == 3
defaultUpdateHost == FALSE

\* the timeouts every constructor of part_002 sets
DefaultTimeouts ==
    /\ ConnectTimeout = defaultConnectTimeout
    /\ ReadTimeout = defaultReadTimeout
    /\ WriteTimeout = defaultWriteTimeout

\* no API call made yet
Idle ==
    /\ api = NoApi
    /\ send = NoSend
    /\ drive = NoDrive
    /\ ended = NoEnded
    /\ sends = <<>>
    /\ exchange = NoExchange
    /\ open = 0
    /\ race = NoRace

Init ==
    /\ Hosts \in {NewSenderHosts(hosts) : hosts \in SeqsUpTo(HostInputs, MaxHosts)}
    /\ PrimaryHost = <<>>
    /\ MaxRedirects \in 0..MaxMaxRedirects
    /\ UpdateHost = defaultUpdateHost
    /\ DefaultTimeouts
    /\ Idle
    /\ getinfo = NoGetInfo
    /\ frame = NoFrame

\* a Sender as the README configures it for proxy groups: built by
\* NewSenderHosts, then UpdateHost set to true by the caller
InitUpdateHost ==
    /\ Hosts \in {NewSenderHosts(hosts) : hosts \in SeqsUpTo(HostInputs, MaxHosts)}
    /\ PrimaryHost = <<>>
    /\ MaxRedirects \in 0..MaxMaxRedirects
    /\ UpdateHost = TRUE
    /\ DefaultTimeouts
    /\ Idle
    /\ getinfo = NoGetInfo
    /\ frame = NoFrame

\* ----------------------------------------------------------------- the code
RECURSIVE Send(_, _), ListLoop(_, _), SendReturn(_, _, _), AfterSend(_, _, _)
RECURSIVE SendMetricsActive(_)

\* sendWithRedirects from its entry to its first sendOnce (MaxRedirects >= 0,
\* so the loop is entered)
StartDrive(m, startHost) ==
    [m EXCEPT !.drive = [active |-> TRUE, startHost |-> startHost,
                         currentHost |-> startHost, redirectCount |-> 0,
                         hops |-> <<>>],
              !.send.starts = Append(@, startHost)]

\* Send as it would be if it ignored the cached PrimaryHost
SendListFirst(m, packet) ==
    ListLoop([m EXCEPT !.send = [active |-> TRUE, packet |-> packet,
                                 primaryAtCall |-> m.PrimaryHost, idx |-> 0,
                                 res |-> ZeroResponse, starts |-> <<>>,
                                 writes |-> 0],
                       !.api.rounds = @ + 1], 1)

\* Send from its entry: the cached PrimaryHost first, else the list
Send(m, packet) ==
    LET m1 == [m EXCEPT !.send = [active |-> TRUE, packet |-> packet,
                                  primaryAtCall |-> m.PrimaryHost, idx |-> 0,
                                  res |-> ZeroResponse, starts |-> <<>>,
                                  writes |-> 0],
                        !.api.rounds = @ + 1]
    IN  IF m.PrimaryHost # <<>>
        THEN StartDrive(m1, m.PrimaryHost)
        ELSE ListLoop(m1, 1)

\* ListLoop as it would be if the error counted the addresses tried in this
\* Send, the cached one included
ListLoopCountsTried(m, i) ==
    IF i > Len(Hosts)
    THEN SendReturn(m, m.send.res,
                    [kind |-> "all hosts failed", n |-> Len(m.send.starts)])
    ELSE StartDrive([m EXCEPT !.send.idx = i], Hosts[i])

\* Send's loop over Hosts, at list position i
ListLoop(m, i) ==
    IF i > Len(Hosts)
    THEN SendReturn(m, m.send.res, [kind |-> "all hosts failed", n |-> Len(Hosts)])
    ELSE StartDrive([m EXCEPT !.send.idx = i], Hosts[i])

\* the bookkeeping of a drive's return, shared by AfterDrive and its variants
DriveEnded(m, res, err) ==
    [m EXCEPT !.drive = NoDrive,
              !.send.res = res,
              !.ended = [valid |-> TRUE, startHost |-> m.drive.startHost,
                         hops |-> m.drive.hops, res |-> res, err |-> err]]

\* an assignment to s.PrimaryHost in Send; send.writes counts them
SetPrimaryHost(m, host) ==
    [m EXCEPT !.PrimaryHost = host, !.send.writes = @ + 1]

\* AfterDrive as it would be if it cached the head of the list
AfterDriveCachesHead(m, res, err) ==
    LET m1 == DriveEnded(m, res, err)
    IN  IF m.send.idx = 0
        THEN IF err = Nil
             THEN SendReturn(m1, res, Nil)
             ELSE ListLoop(SetPrimaryHost(m1, <<>>), 1)
        ELSE IF err = Nil
             THEN SendReturn(SetPrimaryHost(m1, Hosts[1]), res, Nil)
             ELSE ListLoop(m1, m.send.idx + 1)

\* AfterDrive as it would be if the fallback skipped the list position of the
\* cached address that just failed
AfterDriveSkipsCached(m, res, err) ==
    LET m1 == DriveEnded(m, res, err)
    IN  IF m.send.idx = 0
        THEN IF err = Nil
             THEN SendReturn(m1, res, Nil)
             ELSE ListLoop(SetPrimaryHost(m1, <<>>),
                           IF Len(Hosts) > 0 /\ Hosts[1] = m.send.primaryAtCall
                           THEN 2 ELSE 1)
        ELSE IF err = Nil
             THEN SendReturn(SetPrimaryHost(m1, Hosts[m.send.idx]), res, Nil)
             ELSE ListLoop(m1, m.send.idx + 1)

\* AfterDrive as it would be if a failed cached address stayed cached
AfterDriveKeepsCache(m, res, err) ==
    LET m1 == DriveEnded(m, res, err)
    IN  IF m.send.idx = 0
        THEN IF err = Nil
             THEN SendReturn(m1, res, Nil)
             ELSE ListLoop(m1, 1)
        ELSE IF err = Nil
             THEN SendReturn(SetPrimaryHost(m1, Hosts[m.send.idx]), res, Nil)
             ELSE ListLoop(m1, m.send.idx + 1)

\* AfterDrive as it would be if the cache were cleared after every failed drive
AfterDriveClearsOnEveryFailure(m, res, err) ==
    LET m1 == DriveEnded(m, res, err)
    IN  IF m.send.idx = 0
        THEN IF err = Nil
             THEN SendReturn(m1, res, Nil)
             ELSE ListLoop(SetPrimaryHost(m1, <<>>), 1)
        ELSE IF err = Nil
             THEN SendReturn(SetPrimaryHost(m1, Hosts[m.send.idx]), res, Nil)
             ELSE ListLoop(SetPrimaryHost(m1, <<>>), m.send.idx + 1)

\* AfterDrive as it would be if the address that answered with success, the
\* last one of the drive, were cached
AfterDriveCachesFinalProxy(m, res, err) ==
    LET m1 == DriveEnded(m, res, err)
    IN  IF m.send.idx = 0
        THEN IF err = Nil
             THEN SendReturn(m1, res, Nil)
             ELSE ListLoop(SetPrimaryHost(m1, <<>>), 1)
        ELSE IF err = Nil
             THEN SendReturn(SetPrimaryHost(m1, m.drive.currentHost), res, Nil)
             ELSE ListLoop(m1, m.send.idx + 1)

\* AfterDrive as it would be if Send replaced the list address by the address
\* that answered with success ("update s.Host to final proxy after success")
AfterDriveUpdatesHost(m, res, err) ==
    LET m1 == DriveEnded(m, res, err)
    IN  IF m.send.idx = 0
        THEN IF err = Nil
             THEN SendReturn(m1, res, Nil)
             ELSE ListLoop(SetPrimaryHost(m1, <<>>), 1)
        ELSE IF err = Nil
             THEN SendReturn(
                      SetPrimaryHost([m1 EXCEPT !.Hosts[m.send.idx] = m.drive.currentHost],
                                     Hosts[m.send.idx]), res, Nil)
             ELSE ListLoop(m1, m.send.idx + 1)

\* Send after sendWithRedirects returned (res, err); send.idx is 0 for the
\* drive of the cached PrimaryHost, else the list position of the drive
AfterDrive(m, res, err) ==
    LET m1 == DriveEnded(m, res, err)
    IN  IF m.send.idx = 0
        THEN IF err = Nil
             THEN SendReturn(m1, res, Nil)
             ELSE ListLoop(SetPrimaryHost(m1, <<>>), 1)
        ELSE IF err = Nil
             THEN SendReturn(SetPrimaryHost(m1, Hosts[m.send.idx]), res, Nil)
             ELSE ListLoop(m1, m.send.idx + 1)

\* the return of Send to its caller
SendReturn(m, res, err) ==
    LET done == [packet |-> m.send.packet, primaryAtCall |-> m.send.primaryAtCall,
                 starts |-> m.send.starts, res |-> res, err |-> err,
                 primaryAfter |-> m.PrimaryHost, writes |-> m.send.writes]
    IN  AfterSend([m EXCEPT !.send = NoSend, !.sends = Append(@, done)], res, err)

RegisterPacket(host, hostmetadata) ==
    [Request |-> "active checks", Data |-> <<>>, Host |-> host,
     HostMetadata |-> hostmetadata]

\* RegisterHost as it would be if the second round were made whatever the
\* first Send returned
RegisterHostAlwaysTwice(m, res, err) ==
    IF m.api.pc = "round1"
    THEN Send([m EXCEPT !.api.pc = "round2"],
              RegisterPacket(m.api.packet.Host, m.api.packet.HostMetadata))
    ELSE IF err # Nil
         THEN [m EXCEPT !.api.pc = "returned", !.api.err = Err("sending packet")]
         ELSE IF res.Response = "failed"
         THEN [m EXCEPT !.api.pc = "returned",
                        !.api.err = Err("autoregistration failed")]
         ELSE [m EXCEPT !.api.pc = "returned", !.api.err = Nil]

\* RegisterHost as it would be if the error of Send were dropped
RegisterHostDropsError(m, res, err) ==
    IF m.api.pc = "round1"
    THEN IF err = Nil /\ res.Response # "success"
         THEN Send([m EXCEPT !.api.pc = "round2"],
                   RegisterPacket(m.api.packet.Host, m.api.packet.HostMetadata))
         ELSE [m EXCEPT !.api.pc = "returned", !.api.err = Nil]
    ELSE IF err = Nil /\ res.Response = "failed"
         THEN [m EXCEPT !.api.pc = "returned",
                        !.api.err = Err("autoregistration failed")]
         ELSE [m EXCEPT !.api.pc = "returned", !.api.err = Nil]

\* RegisterHost after its first or second Send returned
RegisterHostAfterSend(m, res, err) ==
    IF m.api.pc = "round1"
    THEN IF err # Nil
         THEN [m EXCEPT !.api.pc = "returned", !.api.err = Err("sending packet")]
         ELSE IF res.Response = "success"
         THEN [m EXCEPT !.api.pc = "returned", !.api.err = Nil]
         ELSE Send([m EXCEPT !.api.pc = "round2"],
                   RegisterPacket(m.api.packet.Host, m.api.packet.HostMetadata))
    ELSE IF err # Nil
         THEN [m EXCEPT !.api.pc = "returned", !.api.err = Err("sending packet")]
         ELSE IF res.Response = "failed"
         THEN [m EXCEPT !.api.pc = "returned",
                        !.api.err = Err("autoregistration failed")]
         ELSE [m EXCEPT !.api.pc = "returned", !.api.err = Nil]

\* SendMetrics as it would be if the active packet were sent whatever its
\* size
SendMetricsActiveAlways(m) ==
    Send([m EXCEPT !.api.pc = "active"], NewPacket(m.api.active, TRUE))

\* SendMetrics from its second if: the active packet, then the return
SendMetricsActive(m) ==
    IF Len(m.api.active) > 0
    THEN Send([m EXCEPT !.api.pc = "active"], NewPacket(m.api.active, TRUE))
    ELSE [m EXCEPT !.api.pc = "returned"]

\* SendMetrics as it would be if it returned when the trapper packet failed
SendMetricsStopsOnError(m, res, err) ==
    IF m.api.pc = "trapper"
    THEN IF err # Nil
         THEN [m EXCEPT !.api.pc = "returned", !.api.resTrapper = res,
                        !.api.errTrapper = err]
         ELSE SendMetricsActive([m EXCEPT !.api.resTrapper = res,
                                          !.api.errTrapper = err])
    ELSE [m EXCEPT !.api.pc = "returned", !.api.resActive = res, !.api.errActive = err]

\* SendMetrics after the Send of the trapper or of the active packet returned
SendMetricsAfterSend(m, res, err) ==
    IF m.api.pc = "trapper"
    THEN SendMetricsActive([m EXCEPT !.api.resTrapper = res, !.api.errTrapper = err])
    ELSE [m EXCEPT !.api.pc = "returned", !.api.resActive = res, !.api.errActive = err]

\* the caller's code after Send returned
AfterSend(m, res, err) ==
    IF m.api.op = "RegisterHost" THEN RegisterHostAfterSend(m, res, err)
    ELSE IF m.api.op = "SendMetrics" THEN SendMetricsAfterSend(m, res, err)
    ELSE [m EXCEPT !.api.pc = "returned", !.api.res = res, !.api.err = err]

\* the usable redirect of a response: present, with a non-empty address
UsableRedirect(res) == res.Redirect.present /\ res.Redirect.Address # <<>>

\* sendWithRedirects as it would be with the loop bound off by one
\* (redirectCount < MaxRedirects)
sendWithRedirectsOneHopShort(m, res, err) ==
    IF err # Nil
    THEN AfterDrive(m, res, [kind |-> "sendOnce failed", cause |-> err.kind])
    ELSE IF res.Response = "success"
    THEN AfterDrive(m, res, Nil)
    ELSE IF ~UsableRedirect(res)
    THEN AfterDrive(m, res, Err("failed without redirect"))
    ELSE LET p == parseHostPort(res.Redirect.Address)
         IN  IF p.err # Nil
             THEN AfterDrive(m, res, p.err)
             ELSE IF m.drive.redirectCount + 1 < MaxRedirects
             THEN [m EXCEPT !.drive.currentHost = p.addr,
                            !.drive.redirectCount = @ + 1]
             ELSE AfterDrive(m, res, Err("max redirects exceeded"))

\* sendWithRedirects as it would be if a response without usable redirect
\* were returned with a nil error
sendWithRedirectsAcceptsFailed(m, res, err) ==
    IF err # Nil
    THEN AfterDrive(m, res, [kind |-> "sendOnce failed", cause |-> err.kind])
    ELSE IF res.Response = "success" \/ ~UsableRedirect(res)
    THEN AfterDrive(m, res, Nil)
    ELSE LET p == parseHostPort(res.Redirect.Address)
         IN  IF p.err # Nil
             THEN AfterDrive(m, res, p.err)
             ELSE IF m.drive.redirectCount + 1 <= MaxRedirects
             THEN [m EXCEPT !.drive.currentHost = p.addr,
                            !.drive.redirectCount = @ + 1]
             ELSE AfterDrive(m, res, Err("max redirects exceeded"))

\* sendWithRedirects as it would be if a failed sendOnce were retried at the
\* same address while the loop bound allows
sendWithRedirectsRetries(m, res, err) ==
    IF err # Nil
    THEN IF m.drive.redirectCount + 1 <= MaxRedirects
         THEN [m EXCEPT !.drive.redirectCount = @ + 1]
         ELSE AfterDrive(m, res, [kind |-> "sendOnce failed", cause |-> err.kind])
    ELSE IF res.Response = "success"
    THEN AfterDrive(m, res, Nil)
    ELSE IF ~UsableRedirect(res)
    THEN AfterDrive(m, res, Err("failed without redirect"))
    ELSE LET p == parseHostPort(res.Redirect.Address)
         IN  IF p.err # Nil
             THEN AfterDrive(m, res, p.err)
             ELSE IF m.drive.redirectCount + 1 <= MaxRedirects
             THEN [m EXCEPT !.drive.currentHost = p.addr,
                            !.drive.redirectCount = @ + 1]
             ELSE AfterDrive(m, res, Err("max redirects exceeded"))

\* sendWithRedirects as it would be if it took every status but "failed" for
\* success
sendWithRedirectsUnlessFailed(m, res, err) ==
    IF err # Nil
    THEN AfterDrive(m, res, [kind |-> "sendOnce failed", cause |-> err.kind])
    ELSE IF res.Response # "failed"
    THEN AfterDrive(m, res, Nil)
    ELSE IF ~UsableRedirect(res)
    THEN AfterDrive(m, res, Err("failed without redirect"))
    ELSE LET p == parseHostPort(res.Redirect.Address)
         IN  IF p.err # Nil
             THEN AfterDrive(m, res, p.err)
             ELSE IF m.drive.redirectCount + 1 <= MaxRedirects
             THEN [m EXCEPT !.drive.currentHost = p.addr,
                            !.drive.redirectCount = @ + 1]
             ELSE AfterDrive(m, res, Err("max redirects exceeded"))

\* sendWithRedirects as it would be if it did not count the redirects
sendWithRedirectsUncounted(m, res, err) ==
    IF err # Nil
    THEN AfterDrive(m, res, [kind |-> "sendOnce failed", cause |-> err.kind])
    ELSE IF res.Response = "success"
    THEN AfterDrive(m, res, Nil)
    ELSE IF ~UsableRedirect(res)
    THEN AfterDrive(m, res, Err("failed without redirect"))
    ELSE LET p == parseHostPort(res.Redirect.Address)
         IN  IF p.err # Nil
             THEN AfterDrive(m, res, p.err)
             ELSE [m EXCEPT !.drive.currentHost = p.addr]

\* sendWithRedirects as it would be if it looked at the redirect descriptor
\* before the status
sendWithRedirectsRedirectFirst(m, res, err) ==
    IF err # Nil
    THEN AfterDrive(m, res, [kind |-> "sendOnce failed", cause |-> err.kind])
    ELSE IF UsableRedirect(res)
    THEN LET p == parseHostPort(res.Redirect.Address)
         IN  IF p.err # Nil
             THEN AfterDrive(m, res, p.err)
             ELSE IF m.drive.redirectCount + 1 <= MaxRedirects
             THEN [m EXCEPT !.drive.currentHost = p.addr,
                            !.drive.redirectCount = @ + 1]
             ELSE AfterDrive(m, res, Err("max redirects exceeded"))
    ELSE IF res.Response = "success"
    THEN AfterDrive(m, res, Nil)
    ELSE AfterDrive(m, res, Err("failed without redirect"))

\* sendWithRedirects after sendOnce returned (res, err), to the next sendOnce
\* or to its return
sendWithRedirects(m, res, err) ==
    IF err # Nil
    THEN AfterDrive(m, res, [kind |-> "sendOnce failed", cause |-> err.kind])
    ELSE IF res.Response = "success"
    THEN AfterDrive(m, res, Nil)
    ELSE IF ~UsableRedirect(res)
    THEN AfterDrive(m, res, Err("failed without redirect"))
    ELSE LET p == parseHostPort(res.Redirect.Address)
         IN  IF p.err # Nil
             THEN AfterDrive(m, res, p.err)
             ELSE IF m.drive.redirectCount + 1 <= MaxRedirects
             THEN [m EXCEPT !.drive.currentHost = p.addr,
                            !.drive.redirectCount = @ + 1]
             ELSE AfterDrive(m, res, Err("max redirects exceeded"))

\* what a registration request was answered with: the status of the response,
\* or "error" when sendOnce returned an error
Answer(r) == IF r.err # Nil THEN "error" ELSE r.res.Response

\* a response with status "failed" and no redirect descriptor
Rejection(r) == r.err = Nil /\ r.res.Response = "failed" /\ ~r.res.Redirect.present

\* the record of one exchange in the frames: x is what the network did and
\* r what sendOnce returned; exchange keeps the reply as received and the
\* connection, open counts the connections left open;
\* api.answers keeps the answers to the first two registration requests, and
\* api.rejectedOnly whether every registration request so far was answered
\* with a rejection
Exchanged(m, x, r) ==
    [m EXCEPT !.ended = NoEnded,
              !.exchange = [valid |-> TRUE,
                            received |-> x.dial /\ x.write /\ x.read,
                            length |-> x.length, header |-> x.header,
                            json |-> x.json, conn |-> r.conn],
              !.open = @ + (IF r.conn.opened THEN 1 ELSE 0)
                         - (IF r.conn.closed THEN 1 ELSE 0),
              !.drive.hops = Append(@, [host |-> m.drive.currentHost,
                                        res |-> r.res, err |-> r.err]),
              !.api.attempts = @ + 1,
              !.api.answers = IF m.api.op = "RegisterHost" /\ Len(@) < 2
                              THEN Append(@, Answer(r))
                              ELSE @,
              !.api.rejectedOnly = IF m.api.op = "RegisterHost"
                                   THEN @ /\ Rejection(r)
                                   ELSE @]

\* a fresh API call
NewCall(op, pc, packet, active, trapper) ==
    [Machine EXCEPT !.api = [NoApi EXCEPT !.op = op, !.pc = pc, !.packet = packet,
                                          !.active = active, !.trapper = trapper,
                                          !.primaryAtCall = PrimaryHost],
                    !.send = NoSend, !.drive = NoDrive, !.ended = NoEnded,
                    !.sends = <<>>, !.exchange = NoExchange]

\* ----------------------------------------------------------------- actions
\* Sender.Send(packet), to its first exchange
CallSend ==
    /\ api.pc = "returned"
    /\ \E m \in MetricPool :
          LET packet == NewPacket(<<m>>, m.Active)
          IN  Install(Send(NewCall("Send", "Send", packet, <<>>, <<>>), packet))

\* the loop of SendMetrics as it would be if each metric were put in front
\* of its slice
RECURSIVE SplitMetricsPrepends(_)
SplitMetricsPrepends(metrics) ==
    IF metrics = <<>> THEN [activeMetrics |-> <<>>, trapperMetrics |-> <<>>]
    ELSE LET n == Len(metrics)
             before == SplitMetricsPrepends(SubSeq(metrics, 1, n - 1))
         IN  IF metrics[n].Active
             THEN [before EXCEPT !.activeMetrics = <<metrics[n]>> \o @]
             ELSE [before EXCEPT !.trapperMetrics = <<metrics[n]>> \o @]

\* the loop of SendMetrics over the batch: each metric appended to the active
\* or to the trapper slice
RECURSIVE SplitMetrics(_)
SplitMetrics(metrics) ==
    IF metrics = <<>> THEN [activeMetrics |-> <<>>, trapperMetrics |-> <<>>]
    ELSE LET n == Len(metrics)
             before == SplitMetrics(SubSeq(metrics, 1, n - 1))
         IN  IF metrics[n].Active
             THEN [before EXCEPT !.activeMetrics = Append(@, metrics[n])]
             ELSE [before EXCEPT !.trapperMetrics = Append(@, metrics[n])]

\* Sender.SendMetrics(metrics), to its first exchange
CallSendMetrics ==
    /\ api.pc = "returned"
    /\ \E metrics \in SeqsUpTo(BatchMetrics, MaxBatch) :
          LET split == SplitMetrics(metrics)
              call == NewCall("SendMetrics", "trapper", NoPacket,
                              split.activeMetrics, split.trapperMetrics)
              m == [call EXCEPT !.api.metrics = metrics]
          IN  Install(IF Len(split.trapperMetrics) > 0
                      THEN Send(m, NewPacket(split.trapperMetrics, FALSE))
                      ELSE SendMetricsActive(m))

\* Sender.RegisterHost(host, hostmetadata), to its first exchange
CallRegisterHost ==
    /\ api.pc = "returned"
    /\ LET p == RegisterPacket("h", "meta")
       IN  Install(Send(NewCall("RegisterHost", "round1", p, <<>>, <<>>), p))

\* one sendOnce: the exchange with drive.currentHost, and the code that runs
\* after it up to the next sendOnce or the return of the API call
SendOnce ==
    /\ drive.active
    /\ \E x \in Exchanges(drive.currentHost) :
          LET r == sendOnce(x)
          IN  Install(sendWithRedirects(Exchanged(Machine, x, r), r.res, r.err))

\* The calls of Send and their exchanges. RegisterHost and SendMetrics make
\* Sends of their own, whose outcomes multiply the states; their calls are
\* the steps of specifications of their own.
Next ==
    \/ CallSend
    \/ SendOnce

\* the calls of RegisterHost and their exchanges
NextRegister ==
    \/ CallRegisterHost
    \/ SendOnce

\* a Sender built by NewSender, NewSenderHosts or NewSenderTimeout from any
\* strings, its PrimaryHost left empty or preset by the caller
InitAnyInput ==
    /\ Hosts \in {NewSenderHosts(hosts) : hosts \in SeqsUpTo(AnyInputs, MaxHosts)}
    /\ PrimaryHost \in {<<>>, <<"a">>}
    /\ MaxRedirects \in 0..MaxMaxRedirects
    /\ UpdateHost = defaultUpdateHost
    /\ DefaultTimeouts
    /\ Idle
    /\ getinfo = NoGetInfo
    /\ frame = NoFrame

\* a Response whose info string has up to MaxSegments segments, next to a
\* Sender fresh from NewSenderHosts
InitInfo ==
    /\ Hosts = NewSenderHosts(<<>>)
    /\ PrimaryHost = <<>>
    /\ MaxRedirects = defaultMaxRedirects
    /\ UpdateHost = defaultUpdateHost
    /\ DefaultTimeouts
    /\ Idle
    /\ getinfo \in
          {[NoGetInfo EXCEPT !.segments = segments,
                             !.r = [Response |-> status, Info |-> InfoString(segments),
                                    Redirect |-> NoRedirect]] :
              segments \in SeqsUpTo(SegmentPool, MaxSegments),
              status \in {"success", "failed"}}
    /\ frame = NoFrame

\* Response.GetInfo()
CallGetInfo ==
    /\ ~getinfo.called
    /\ getinfo' = [getinfo EXCEPT !.called = TRUE,
                                  !.ret = GetInfo(getinfo.r).ret,
                                  !.err = GetInfo(getinfo.r).err]
    /\ UNCHANGED <<Hosts, PrimaryHost, MaxRedirects, UpdateHost, ConnectTimeout,
                   ReadTimeout, WriteTimeout, api, send, drive, ended, sends,
                   exchange, open, frame, race>>

\* a Sender built by NewSender, its MaxRedirects set to 0 by the caller
InitMetrics ==
    /\ Hosts \in {NewSenderHosts(<<host>>) : host \in HostInputs}
    /\ PrimaryHost = <<>>
    /\ MaxRedirects = 0
    /\ UpdateHost = defaultUpdateHost
    /\ DefaultTimeouts
    /\ Idle
    /\ getinfo = NoGetInfo
    /\ frame = NoFrame

NextMetrics ==
    \/ CallSendMetrics
    \/ SendOnce

\* a Packet whose JSON encoding has one of BodyLengths bytes, next to a
\* Sender fresh from NewSenderHosts
InitRequest ==
    /\ Hosts = NewSenderHosts(<<>>)
    /\ PrimaryHost = <<>>
    /\ MaxRedirects = defaultMaxRedirects
    /\ UpdateHost = defaultUpdateHost
    /\ DefaultTimeouts
    /\ Idle
    /\ getinfo = NoGetInfo
    /\ frame \in {[NoFrame EXCEPT !.bodyLen = n] : n \in BodyLengths}

\* the request sendOnce writes for the Packet
WriteRequest ==
    /\ ~frame.written
    /\ frame' = [written |-> TRUE, bodyLen |-> frame.bodyLen,
                 header |-> Buffer(frame.bodyLen).header,
                 dataLen |-> Buffer(frame.bodyLen).dataLen,
                 body |-> Buffer(frame.bodyLen).body]
    /\ UNCHANGED <<Hosts, PrimaryHost, MaxRedirects, UpdateHost, ConnectTimeout,
                   ReadTimeout, WriteTimeout, api, send, drive, ended, sends,
                   exchange, open, getinfo, race>>

Spec == Init /\ [][Next]_vars

\* the calls of RegisterHost on the same Senders
SpecRegister == Init /\ [][NextRegister]_vars

\* ------------------------------------------------- Send on two goroutines
\* Send holds no lock, so its reads and writes of s.PrimaryHost race with
\* those of another goroutine. A string is read and written one word at a
\* time, in an order the compiler chooses, and a value loaded for the test
\* s.PrimaryHost != "" may be loaded again for the call or kept in a register.
\* Each step below holds one access to a word; a drive is one step that
\* succeeds or fails.

\* the string a pointer and a length make: len bytes of the data at ptr, and
\* unknown bytes "?" for what lies beyond the data
Str(ptr, len) ==
    IF len <= Len(ptr) THEN SubSeq(ptr, 1, len)
    ELSE ptr \o [i \in 1..(len - Len(ptr)) |-> "?"]

\* Send's loop over Hosts at list position i, to the next drive or the return
GoListLoop(proc, i) ==
    IF i > Len(Hosts) THEN IdleProc
    ELSE [proc EXCEPT !.pc = "drive", !.idx = i, !.startHost = Hosts[i]]

\* the state after goroutine p became proc and the words of s.PrimaryHost
\* became ptr and len
Raced(p, proc, ptr, len) ==
    /\ race' = [procs |-> [race.procs EXCEPT ![p] = proc], ptr |-> ptr, len |-> len]
    /\ PrimaryHost' = Str(ptr, len)
    /\ UNCHANGED <<Hosts, MaxRedirects, UpdateHost, ConnectTimeout, ReadTimeout,
                   WriteTimeout, api, send, drive, ended, sends, exchange, open,
                   getinfo, frame>>

\* Send is called and tests s.PrimaryHost != "" (the length word); when it
\* is not empty the pointer is still to be loaded for the call, and the
\* length is loaded again or not
GoSend(p) ==
    /\ race.procs[p].pc = "idle"
    /\ IF race.len # 0
       THEN \E toLoad \in {{"ptr"}, {"ptr", "len"}} :
               Raced(p, [IdleProc EXCEPT !.pc = "load", !.len = race.len,
                                         !.toLoad = toLoad],
                     race.ptr, race.len)
       ELSE Raced(p, GoListLoop(IdleProc, 1), race.ptr, race.len)

\* one word of s.PrimaryHost is loaded for sendWithRedirects(packet,
\* s.PrimaryHost); after the last one the drive starts
GoLoad(p) ==
    /\ race.procs[p].pc = "load"
    /\ \E w \in race.procs[p].toLoad :
          LET proc == race.procs[p]
              loaded == [proc EXCEPT !.toLoad = @ \ {w},
                                     !.ptr = IF w = "ptr" THEN race.ptr ELSE @,
                                     !.len = IF w = "len" THEN race.len ELSE @]
          IN  Raced(p, IF loaded.toLoad = {}
                       THEN [loaded EXCEPT !.pc = "drive", !.idx = 0,
                                           !.startHost = Str(loaded.ptr, loaded.len)]
                       ELSE loaded,
                    race.ptr, race.len)

\* sendWithRedirects returns: with success only from an address that can be
\* dialled. Send then returns, goes on in the list, or begins to store the
\* new value of s.PrimaryHost.
GoDrive(p) ==
    /\ race.procs[p].pc = "drive"
    /\ \E ok \in {FALSE} \cup (IF Dialable(race.procs[p].startHost) THEN {TRUE} ELSE {}) :
          LET proc == race.procs[p]
              store(value) == [proc EXCEPT !.pc = "store", !.value = value,
                                           !.pending = {"ptr", "len"}]
          IN  Raced(p, IF proc.idx = 0
                       THEN IF ok THEN IdleProc ELSE store(<<>>)
                       ELSE IF ok THEN store(Hosts[proc.idx])
                       ELSE GoListLoop(proc, proc.idx + 1),
                    race.ptr, race.len)

\* one word of the new value is stored in s.PrimaryHost; after the last one
\* Send goes to the list (the cache was cleared) or returns (it was set)
GoStore(p) ==
    /\ race.procs[p].pc = "store"
    /\ \E w \in race.procs[p].pending :
          LET proc == race.procs[p]
              stored == [proc EXCEPT !.pending = @ \ {w}]
          IN  Raced(p, IF stored.pending # {} THEN stored
                       ELSE IF proc.value = <<>> THEN GoListLoop(stored, 1)
                       ELSE IdleProc,
                    IF w = "ptr" THEN proc.value ELSE race.ptr,
                    IF w = "len" THEN Len(proc.value) ELSE race.len)

\* a Sender built by NewSenderHosts for the addresses a and b:1, shared by
\* the goroutines
InitRace ==
    /\ Hosts = NewSenderHosts(<<<<"a">>, <<"b", ":", "1">>>>)
    /\ PrimaryHost = <<>>
    /\ MaxRedirects = defaultMaxRedirects
    /\ UpdateHost = defaultUpdateHost
    /\ DefaultTimeouts
    /\ Idle
    /\ getinfo = NoGetInfo
    /\ frame = NoFrame

NextRace ==
    \E p \in Goroutines :
        \/ GoSend(p)
        \/ GoLoad(p)
        \/ GoDrive(p)
        \/ GoStore(p)

\* Sends on two goroutines without a lock
SpecRace == InitRace /\ [][NextRace]_vars

\* a Sender built by NewSender for the address b:1, its MaxRedirects set to 1
\* by the caller
InitCalls ==
    /\ Hosts = NewSenderHosts(<<<<"b", ":", "1">>>>)
    /\ PrimaryHost = <<>>
    /\ MaxRedirects = 1
    /\ UpdateHost = defaultUpdateHost
    /\ DefaultTimeouts
    /\ Idle
    /\ getinfo = NoGetInfo
    /\ frame = NoFrame

NextCalls ==
    \/ CallSend
    \/ CallSendMetrics
    \/ CallRegisterHost
    \/ SendOnce

\* the calls of Send, SendMetrics and RegisterHost and their exchanges
SpecCalls == InitCalls /\ [][NextCalls]_vars

\* a Sender built by NewSender for the address a, its MaxRedirects set to 1
\* by the caller
InitFair ==
    /\ Hosts = NewSenderHosts(<<<<"a">>>>)
    /\ PrimaryHost = <<>>
    /\ MaxRedirects = 1
    /\ UpdateHost = defaultUpdateHost
    /\ DefaultTimeouts
    /\ Idle
    /\ getinfo = NoGetInfo
    /\ frame = NoFrame

\* the calls when every sendOnce returns: the deadlines of sender.go:139, 152
\* and 157 bound the dial, the write and the read
SpecFair == InitFair /\ [][Next]_vars /\ WF_vars(SendOnce)

\* the requests written for Packets of the BodyLengths
SpecRequest == InitRequest /\ [][WriteRequest]_vars

\* the calls of SendMetrics and their exchanges
SpecMetrics == InitMetrics /\ [][NextMetrics]_vars

\* GetInfo applied to the Responses of InitInfo
SpecInfo == InitInfo /\ [][CallGetInfo]_vars

\* the same calls on a Sender built from any strings
SpecAnyInput == InitAnyInput /\ [][Next]_vars

\* the same calls on a Sender whose UpdateHost the caller has set
SpecUpdateHost == InitUpdateHost /\ [][Next]_vars

\* -------------------------------------------------------------- observers
\* the API call has returned
Returned == api.op # "none" /\ api.pc = "returned"

LastSend == sends[Len(sends)]

\* the Send in progress, else the Send that returned last: the cached primary
\* at its call and the starting addresses of its drives, in order
ThisSend ==
    IF send.active
    THEN [known |-> TRUE, primaryAtCall |-> send.primaryAtCall, starts |-> send.starts]
    ELSE IF Len(sends) > 0
    THEN [known |-> TRUE, primaryAtCall |-> LastSend.primaryAtCall,
          starts |-> LastSend.starts]
    ELSE [known |-> FALSE, primaryAtCall |-> <<>>, starts |-> <<>>]

\* the number of drives of ThisSend that have returned
DrivesEnded == Len(ThisSend.starts) - (IF drive.active THEN 1 ELSE 0)

SendHasReturned == ~send.active /\ Len(sends) > 0

IsPrefix(s, t) == Len(s) <= Len(t) /\ s = SubSeq(t, 1, Len(s))

\* hop h was answered with a redirect the drive can follow
ValidRedirect(h) ==
    /\ h.err = Nil
    /\ h.res.Response # "success"
    /\ UsableRedirect(h.res)
    /\ parseHostPort(h.res.Redirect.Address).err = Nil

\* hop h was answered with a success response
Success(h) == h.err = Nil /\ h.res.Response = "success"

\* ------------------------------------------------------------------ claims
\* C1: with no cached primary at the call, the list addresses are tried in
\* list order; when a drive succeeds Send returns at once with that drive's
\* Response and no error, no later address is tried, and the cached primary
\* is the list address the successful drive started at.
C1_FirstWorkingListHostIsCached ==
    (ThisSend.known /\ ThisSend.primaryAtCall = <<>>) =>
        LET k == Len(ThisSend.starts)
        IN  /\ IsPrefix(ThisSend.starts, Hosts)
            /\ (ended.valid /\ ended.err = Nil) =>
                  /\ SendHasReturned
                  /\ ~drive.active
                  /\ LastSend.err = Nil
                  /\ LastSend.res = ended.res
                  /\ ended.res = Last(ended.hops).res
                  /\ k \in 1..Len(Hosts)
                  /\ ended.startHost = Hosts[k]
                  /\ PrimaryHost = Hosts[k]
                  /\ (api.op = "Send" => Returned /\ api.res = ended.res /\ api.err = Nil)

\* a Send without cached primary whose first drive failed and whose second
\* drive, started at a different address, succeeded
C1_Witness ==
    /\ Returned
    /\ ThisSend.primaryAtCall = <<>>
    /\ Len(ThisSend.starts) = 2
    /\ Hosts[1] # Hosts[2]
    /\ ended.valid /\ ended.err = Nil
    /\ PrimaryHost = Hosts[2]

\* C2: when the drive of the cached primary fails, the same Send clears the
\* cached primary and goes through the configured list from its head, in
\* order and without skipping a position (the position of the address that
\* was cached included), to the first drive that succeeds or to the end.
C2_FailedCacheFallsBackToWholeList ==
    (ThisSend.known /\ ThisSend.primaryAtCall # <<>>) =>
        LET starts == ThisSend.starts
            tail == SubSeq(starts, 2, Len(starts))
        IN  /\ IsPrefix(tail, Hosts)
            /\ (ended.valid /\ ended.err # Nil /\ DrivesEnded = 1) =>
                  /\ PrimaryHost = <<>>
                  /\ IF Hosts = <<>>
                     THEN SendHasReturned /\ LastSend.err # Nil
                     ELSE /\ send.active /\ drive.active
                          /\ drive.startHost = Hosts[1]
                          /\ tail = <<Hosts[1]>>
            /\ (send.active /\ Len(starts) > 1) => PrimaryHost = <<>>
            /\ (ended.valid /\ ended.err # Nil /\ send.active) => drive.active
            /\ (SendHasReturned /\ LastSend.err # Nil) =>
                  /\ tail = Hosts
                  /\ PrimaryHost = <<>>

\* the second list address was cached, its drive failed, and the fallback
\* tried both list positions, the second one again
C2_Witness ==
    /\ Returned
    /\ Len(Hosts) = 2
    /\ Hosts[1] # Hosts[2]
    /\ ThisSend.primaryAtCall = Hosts[2]
    /\ ThisSend.starts = <<Hosts[2], Hosts[1], Hosts[2]>>

\* C3: with a cached primary, the first connection of Send goes to it
\* whatever the list order; when that drive succeeds Send returns its
\* Response at once, tries no list address and leaves the cache as it was.
C3_CachedPrimaryIsTriedFirst ==
    (ThisSend.known /\ ThisSend.primaryAtCall # <<>>) =>
        LET p == ThisSend.primaryAtCall
        IN  /\ Len(ThisSend.starts) >= 1
            /\ ThisSend.starts[1] = p
            /\ (drive.active /\ Len(ThisSend.starts) = 1 /\ drive.hops = <<>>) =>
                  drive.currentHost = p
            /\ (ended.valid /\ DrivesEnded = 1) => ended.hops[1].host = p
            /\ (ended.valid /\ ended.err = Nil /\ DrivesEnded = 1) =>
                  /\ SendHasReturned
                  /\ ~drive.active
                  /\ ThisSend.starts = <<p>>
                  /\ LastSend.res = ended.res
                  /\ LastSend.err = Nil
                  /\ PrimaryHost = p

\* the cached primary is the second list address, and its drive succeeded
C3_Witness ==
    /\ Returned
    /\ Len(Hosts) = 2
    /\ Hosts[1] # Hosts[2]
    /\ ThisSend.primaryAtCall = Hosts[2]
    /\ ThisSend.starts = <<Hosts[2]>>
    /\ ended.valid /\ ended.err = Nil
    /\ PrimaryHost = Hosts[2]

\* C4: the redirect count of a drive starts at 0; a drive goes on as long as
\* its exchanges are answered with valid redirects and fewer than
\* MaxRedirects+1 of them were made; MaxRedirects+1 valid redirects in a row
\* end it with the redirect-limit error, and a success response after at most
\* MaxRedirects redirects ends it with success.
C4_RedirectLimit ==
    /\ drive.active =>
          /\ drive.redirectCount = Len(drive.hops)
          /\ Len(drive.hops) <= MaxRedirects
          /\ \A i \in 1..Len(drive.hops) : ValidRedirect(drive.hops[i])
    /\ ended.valid =>
          LET n == Len(ended.hops)
          IN  /\ n \in 1..(MaxRedirects + 1)
              /\ \A i \in 1..(n - 1) : ValidRedirect(ended.hops[i])
              /\ ValidRedirect(ended.hops[n]) =>
                    /\ n = MaxRedirects + 1
                    /\ ended.err = Err("max redirects exceeded")
              /\ ended.err = Err("max redirects exceeded") =>
                    /\ n = MaxRedirects + 1
                    /\ ValidRedirect(ended.hops[n])
              /\ Success(ended.hops[n]) =>
                    /\ ended.err = Nil
                    /\ ended.res = ended.hops[n].res

\* a drive answered with exactly MaxRedirects >= 1 valid redirects and then
\* with a success response
C4_Witness ==
    /\ MaxRedirects >= 1
    /\ ended.valid
    /\ Len(ended.hops) = MaxRedirects + 1
    /\ \A i \in 1..MaxRedirects : ValidRedirect(ended.hops[i])
    /\ Success(Last(ended.hops))
    /\ ended.err = Nil

\* C5: an exchange answered with status "failed" and no redirect descriptor
\* ends the drive with the rejection error: the drive is never successful and
\* makes no further exchange.
C5_FailedWithoutRedirectIsRejected ==
    /\ drive.active => \A i \in 1..Len(drive.hops) : ~Rejection(drive.hops[i])
    /\ ended.valid =>
          /\ \A i \in 1..(Len(ended.hops) - 1) : ~Rejection(ended.hops[i])
          /\ Rejection(Last(ended.hops)) =>
                /\ ended.err = Err("failed without redirect")
                /\ ended.res = Last(ended.hops).res

\* a drive that followed a redirect and was then answered with "failed" and
\* no redirect descriptor
C5_Witness ==
    /\ ended.valid
    /\ Len(ended.hops) = 2
    /\ Rejection(Last(ended.hops))
    /\ ended.err = Err("failed without redirect")

\* C6: a sendOnce that returns an error ends the drive at once, on the first
\* exchange or after redirects: the drive returns an error wrapping it, and
\* makes no further exchange, neither with the same address nor with another.
C6_TransportErrorEndsDrive ==
    /\ drive.active => \A i \in 1..Len(drive.hops) : drive.hops[i].err = Nil
    /\ ended.valid =>
          /\ \A i \in 1..(Len(ended.hops) - 1) : ended.hops[i].err = Nil
          /\ Last(ended.hops).err # Nil =>
                ended.err = [kind |-> "sendOnce failed",
                             cause |-> Last(ended.hops).err.kind]

\* a drive that followed a redirect to another address and whose exchange
\* there failed
C6_Witness ==
    /\ ended.valid
    /\ Len(ended.hops) = 2
    /\ ended.hops[1].host # ended.hops[2].host
    /\ Last(ended.hops).err = Err("reading the response")
    /\ ended.err.kind = "sendOnce failed"

\* C7: RegisterHost on a Sender with one configured address, when the first
\* request is answered with status "failed" and the second, if one is made,
\* with status "success": it makes exactly two requests and returns no error.
C7_RegisterHostRetriesAfterFailed ==
    (/\ api.op = "RegisterHost"
     /\ Returned
     /\ Len(Hosts) = 1
     /\ Len(api.answers) >= 1
     /\ api.answers[1] = "failed"
     /\ Len(api.answers) >= 2 => api.answers[2] = "success") =>
        /\ api.err = Nil
        /\ api.attempts = 2

\* C8: when the first registration request is answered with status
\* "success", RegisterHost has returned no error after that one request and
\* one round.
C8_RegisterHostSucceedsAtOnce ==
    (/\ api.op = "RegisterHost"
     /\ Len(api.answers) >= 1
     /\ api.answers[1] = "success") =>
        /\ Returned
        /\ api.err = Nil
        /\ api.attempts = 1
        /\ api.rounds = 1

\* RegisterHost returned after a first request answered with "success"
C8_Witness ==
    /\ api.op = "RegisterHost"
    /\ Returned
    /\ api.answers = <<"success">>
    /\ api.err = Nil

\* C9: RegisterHost returns an error when every request it made was answered
\* with status "failed" and no redirect descriptor, and it never calls Send
\* more than twice.
C9_RegisterHostFailsWhenOnlyRejected ==
    api.op = "RegisterHost" =>
        /\ api.rounds <= 2
        /\ Len(sends) <= 2
        /\ (Returned /\ api.rejectedOnly) => api.err # Nil

\* RegisterHost returned an error after two requests (the cached primary and
\* the list address), both answered with "failed" and no redirect descriptor
C9_Witness ==
    /\ api.op = "RegisterHost"
    /\ Returned
    /\ api.rejectedOnly
    /\ api.attempts = 2
    /\ api.answers = <<"failed", "failed">>
    /\ api.err = Err("sending packet")

\* C10: between API calls of a Sender built with an empty cached primary: a
\* non-empty cached primary is the starting address of the drive that
\* succeeded in the most recent Send, and after a Send that failed the cached
\* primary is empty.
C10_CacheIsStartOfLastSuccess ==
    /\ api.op = "none" => PrimaryHost = <<>>
    /\ (Returned /\ Len(sends) > 0) =>
          /\ PrimaryHost # <<>> =>
                /\ LastSend.err = Nil
                /\ PrimaryHost = Last(LastSend.starts)
                /\ ended.valid /\ ended.err = Nil
                /\ ended.startHost = PrimaryHost
          /\ LastSend.err # Nil => PrimaryHost = <<>>
    /\ (Returned /\ Len(sends) = 0) => PrimaryHost = <<>>

\* a Send whose cached primary failed and whose drive from another list
\* address succeeded after a redirect: that list address is cached
C10_Witness ==
    /\ Returned
    /\ api.op = "Send"
    /\ LastSend.primaryAtCall # <<>>
    /\ PrimaryHost # <<>>
    /\ PrimaryHost # LastSend.primaryAtCall
    /\ Len(ended.hops) = 2
    /\ Last(ended.hops).host # PrimaryHost

WritesAccounted ==
    /\ \A k \in 1..Len(sends) :
          LET d == sends[k]
              hit == d.primaryAtCall # <<>> /\ Len(d.starts) = 1 /\ d.err = Nil
              cleared == d.primaryAtCall # <<>> /\ ~hit
              set == d.err = Nil /\ ~hit
          IN  d.writes = (IF cleared THEN 1 ELSE 0) + (IF set THEN 1 ELSE 0)
    /\ send.active =>
          /\ send.writes = (IF send.primaryAtCall # <<>> /\ send.idx > 0
                            THEN 1 ELSE 0)
          /\ send.idx > 0 => PrimaryHost = <<>>

\* C13 as claimed: every Send that has returned (after trying at least one
\* address) wrote the cached primary exactly once.
C13_ExactlyOneWritePerSend ==
    (SendHasReturned /\ Len(LastSend.starts) >= 1) => LastSend.writes = 1

\* C13, amended: a Send writes the cached primary at most twice. It clears it
\* once exactly when the cache was set at the call and the drive of the cached
\* address failed, and sets it once exactly when a drive of the list
\* succeeded, the clear before the set; a Send whose cached drive succeeds,
\* or that has no cache and no successful drive, writes it zero times. Every
\* step that changes it is the return of a drive to Send, and changes it to
\* empty or from empty.
C13_CacheWrittenByClearAndSetOnly ==
    [][/\ WritesAccounted'
       /\ PrimaryHost' # PrimaryHost =>
             /\ ended'.valid
             /\ PrimaryHost = <<>> \/ PrimaryHost' = <<>>]_vars

\* a Send that wrote the cached primary twice: cleared after the cached drive
\* failed, set after a list drive succeeded
C13_Witness ==
    /\ SendHasReturned
    /\ LastSend.writes = 2
    /\ LastSend.primaryAtCall # <<>>
    /\ PrimaryHost # <<>>

\* C14 as claimed: the count in the all-hosts-failed error is the number of
\* addresses the Send tried.
C14_CountIsAddressesTried ==
    (SendHasReturned /\ LastSend.err.kind = "all hosts failed")
        => LastSend.err.n = Len(LastSend.starts)

\* C14, amended: a Send has returned an error exactly when every drive it
\* started failed; the error is all-hosts-failed, and its count is the length
\* of the configured list, while the addresses tried are the list and, when
\* the cache was set at the call, the cached primary before it.
C14_AllHostsFailedCountsTheList ==
    /\ \A k \in 1..Len(sends) :
          LET d == sends[k]
          IN  d.err # Nil =>
                /\ d.err.kind = "all hosts failed"
                /\ d.err.n = Len(Hosts)
                /\ Len(d.starts) =
                      Len(Hosts) + (IF d.primaryAtCall # <<>> THEN 1 ELSE 0)
    /\ (ended.valid /\ ended.err # Nil /\ ~send.active) =>
          (SendHasReturned /\ LastSend.err # Nil)
    /\ (ended.valid /\ ended.err = Nil) =>
          (SendHasReturned /\ LastSend.err = Nil)

\* a Send whose cached primary and whole list failed: one address more was
\* tried than the error counts
C14_Witness ==
    /\ SendHasReturned
    /\ LastSend.err # Nil
    /\ LastSend.primaryAtCall # <<>>
    /\ Len(Hosts) >= 1
    /\ Len(LastSend.starts) = Len(Hosts) + 1
    /\ LastSend.err.n = Len(Hosts)

\* the address a redirect descriptor's string stands for: the string without
\* the spaces around it, with ":10051" after it when it has no colon
RedirectTarget(address) ==
    LET n == Len(address)
        lead == CHOOSE k \in 0..n :
                   /\ \A i \in 1..k : address[i] = " "
                   /\ k < n => address[k + 1] # " "
        trail == CHOOSE k \in 0..(n - lead) :
                    /\ \A i \in (n - k + 1)..n : address[i] = " "
                    /\ k < n - lead => address[n - k] # " "
        bare == [i \in 1..(n - lead - trail) |-> address[lead + i]]
    IN  IF bare = <<>> \/ \E i \in 1..Len(bare) : bare[i] = ":"
        THEN bare
        ELSE bare \o <<":", "1", "0", "0", "5", "1">>

\* the address has nothing before its colon, nothing after it, or no colon
NoHostOrNoPort(address) ==
    \/ address = <<>>
    \/ address[1] = ":"
    \/ address[Len(address)] = ":"
    \/ \A i \in 1..Len(address) : address[i] # ":"

\* C15 for the hops of one drive, ended with error err or, when active, about
\* to contact next
RedirectsGoToTargets(hops, active, next, err) ==
    \A i \in 1..Len(hops) :
        LET h == hops[i]
        IN  (h.err = Nil /\ h.res.Response # "success" /\ h.res.Redirect.present
                /\ h.res.Redirect.Address # <<>>) =>
               LET target == RedirectTarget(h.res.Redirect.Address)
               IN  IF NoHostOrNoPort(target)
                   THEN /\ i = Len(hops)
                        /\ ~active
                        /\ err.kind = "invalid redirect address"
                   ELSE /\ i < Len(hops) => hops[i + 1].host = target
                        /\ (i = Len(hops) /\ active) => next = target
                        /\ (i = Len(hops) /\ ~active) =>
                              /\ err.kind = "max redirects exceeded"
                              /\ i = MaxRedirects + 1

\* C15: a redirect with a non-empty address string, received with a
\* non-success status, sends the drive to the string's normalized form (spaces
\* trimmed, ":10051" appended when it has no port) and nowhere else; when the
\* normalized form lacks a host or a port the drive ends there with the
\* invalid-redirect error, also at the exchange that exhausts the redirect
\* limit, and no further address is contacted.
C15_RedirectTargetIsNormalizedAndValidated ==
    /\ drive.active =>
          RedirectsGoToTargets(drive.hops, TRUE, drive.currentHost, Nil)
    /\ ended.valid =>
          RedirectsGoToTargets(ended.hops, FALSE, <<>>, ended.err)

\* a drive that followed a redirect whose string needed trimming and the
\* default port, and then ended on an invalid redirect at the exchange that
\* exhausted the redirect limit
C15_Witness ==
    /\ ended.valid
    /\ Len(ended.hops) = MaxRedirects + 1
    /\ Len(ended.hops) >= 2
    /\ ended.hops[1].res.Redirect.Address = <<"a", " ">>
    /\ ended.hops[2].host = <<"a", ":", "1", "0", "0", "5", "1">>
    /\ Last(ended.hops).res.Redirect.Address = <<"a", ":">>
    /\ ended.err.kind = "invalid redirect address"

\* C12: on a Sender with UpdateHost set, after a Send that succeeded through
\* one or more redirects the cached primary is the final proxy, the address
\* that answered with success, so that the next Send contacts it first.
C12_UpdateHostCachesFinalProxy ==
    (/\ UpdateHost
     /\ SendHasReturned
     /\ LastSend.err = Nil
     /\ ended.valid
     /\ Len(ended.hops) >= 2)
        => PrimaryHost = Last(ended.hops).host

\* the address is host:port with a non-empty host without colon and a
\* non-empty port of digits
HasHostAndNumericPort(address) ==
    \E i \in 2..(Len(address) - 1) :
        /\ address[i] = ":"
        /\ \A j \in 1..(i - 1) : address[j] # ":"
        /\ \A j \in (i + 1)..Len(address) : address[j] \in Digits

\* C16: whatever strings the Sender was built from, and whatever PrimaryHost
\* the caller preset, every address handed to a connection attempt has a
\* non-empty host and a non-empty numeric port.
C16_DialedAddressHasHostAndPort ==
    /\ drive.active => HasHostAndNumericPort(drive.currentHost)
    /\ \A i \in 1..Len(drive.hops) : HasHostAndNumericPort(drive.hops[i].host)

\* the string is an integer in decimal notation, with or without sign
IsInteger(value) ==
    \E first \in 1..2 :
        /\ first <= Len(value)
        /\ first = 2 => value[1] \in {"+", "-"}
        /\ \A i \in first..Len(value) : value[i] \in Digits

\* C20: GetInfo called on a success Response returns an error whenever the
\* value of processed, failed or total in the info string is not a valid
\* integer.
C20_InvalidIntegerIsAnError ==
    (/\ getinfo.called
     /\ getinfo.r.Response = "success"
     /\ \E i \in 1..Len(getinfo.segments) :
           /\ getinfo.segments[i].key \in {KeyProcessed, KeyFailed, KeyTotal}
           /\ ~IsInteger(getinfo.segments[i].value))
        => getinfo.err # Nil

\* the packets SendMetrics has handed to Send in this call, in order
PacketsOfCall ==
    [k \in 1..Len(sends) |-> sends[k].packet]
        \o (IF send.active THEN <<send.packet>> ELSE <<>>)

\* the metrics of the batch whose Active flag is flag, in the order of the
\* batch: the j-th of them is at the j-th position that has the flag
InBatchOrder(metrics, flag) ==
    LET at == {i \in 1..Len(metrics) : metrics[i].Active = flag}
    IN  [j \in 1..Cardinality(at) |->
            metrics[CHOOSE i \in at : Cardinality({k \in at : k <= i}) = j]]

NoneInBatch(flag) == \A i \in 1..Len(api.metrics) : api.metrics[i].Active # flag

C18_EmptySubBatchIsNotSent ==
    api.op = "SendMetrics" =>
        /\ NoneInBatch(TRUE) =>
              /\ \A k \in 1..Len(PacketsOfCall) :
                    PacketsOfCall[k].Request # "agent data"
              /\ api.errActive = Nil
              /\ api.resActive = ZeroResponse
              /\ GetInfo(api.resActive).err # Nil
        /\ NoneInBatch(FALSE) =>
              /\ \A k \in 1..Len(PacketsOfCall) :
                    PacketsOfCall[k].Request # "sender data"
              /\ api.errTrapper = Nil
              /\ api.resTrapper = ZeroResponse
              /\ GetInfo(api.resTrapper).err # Nil
        /\ (NoneInBatch(TRUE) \/ NoneInBatch(FALSE)) =>
              /\ Len(PacketsOfCall) <= 1
              /\ Len(PacketsOfCall) = 0 =>
                    (api.attempts = 0 /\ PrimaryHost = api.primaryAtCall)
              /\ Len(sends) = 1 =>
                    /\ sends[1].primaryAtCall = api.primaryAtCall
                    /\ PrimaryHost = sends[1].primaryAfter

\* SendMetrics has returned for a batch of active metrics only, delivered
\* with success: nothing was sent for the trapper mode
C18_Witness ==
    /\ Returned
    /\ api.op = "SendMetrics"
    /\ api.metrics # <<>>
    /\ NoneInBatch(FALSE)
    /\ Len(sends) = 1
    /\ api.errActive = Nil
    /\ api.resActive.Response = "success"
    /\ api.errTrapper = Nil
    /\ api.resTrapper = ZeroResponse

\* C19: for a batch with metrics of both modes SendMetrics has, at its
\* return, called Send twice, for the "sender data" packet and then for the
\* "agent data" packet, whatever the first Send returned, and each pair it
\* returns is what the Send of that mode's packet returned.
C19_BothPacketsSentIndependently ==
    (/\ api.op = "SendMetrics"
     /\ Returned
     /\ ~NoneInBatch(TRUE)
     /\ ~NoneInBatch(FALSE))
        => /\ Len(sends) = 2
           /\ sends[1].packet.Request = "sender data"
           /\ sends[2].packet.Request = "agent data"
           /\ api.resTrapper = sends[1].res
           /\ api.errTrapper = sends[1].err
           /\ api.resActive = sends[2].res
           /\ api.errActive = sends[2].err

\* SendMetrics has returned with the trapper packet failed and the active
\* packet delivered
C19_Witness ==
    /\ api.op = "SendMetrics"
    /\ Returned
    /\ Len(sends) = 2
    /\ api.errTrapper # Nil
    /\ api.errActive = Nil
    /\ api.resActive.Response = "success"

\* the other three outcomes of a batch with both modes
BothDelivered ==
    Returned /\ api.op = "SendMetrics" /\ Len(sends) = 2
        /\ api.errTrapper = Nil /\ api.errActive = Nil
OnlyTrapperDelivered ==
    Returned /\ api.op = "SendMetrics" /\ Len(sends) = 2
        /\ api.errTrapper = Nil /\ api.errActive # Nil
NoneDelivered ==
    Returned /\ api.op = "SendMetrics" /\ Len(sends) = 2
        /\ api.errTrapper # Nil /\ api.errActive # Nil

\* the last sendOnce read a reply that is shorter than 13 bytes, or does not
\* begin with the header, or whose body is not JSON that decodes to a Response
MalformedReply ==
    /\ exchange.valid
    /\ exchange.received
    /\ \/ exchange.length < FrameLen
       \/ ~exchange.header
       \/ exchange.json # "ok"

\* the Send went on from the drive that ended in the last step to the next
\* list address, or returned the all-hosts-failed error when there was none;
\* in both cases no primary is cached
AddressFailed ==
    IF send.active /\ Len(send.starts) >= 2
    THEN /\ drive.active
         /\ drive.startHost = Hosts[send.idx]
         /\ send.starts[Len(send.starts) - 1] = ended.startHost
         /\ PrimaryHost = <<>>
    ELSE /\ Len(sends) > 0
         /\ LastSend.err = [kind |-> "all hosts failed", n |-> Len(Hosts)]
         /\ Last(LastSend.starts) = ended.startHost
         /\ LastSend.primaryAfter = <<>>

ReplyWithoutHeader == MalformedReply /\ exchange.length < HeaderLen
ReplyWithoutBody == MalformedReply /\ exchange.length = FrameLen /\ exchange.header
PartialDecode ==
    /\ MalformedReply
    /\ exchange.json = "type"
    /\ Last(ended.hops).res.Response = "success"
    /\ Last(ended.hops).err = Err("not valid")

\* C22: the request written for a Packet is the 5 header bytes, then 8 bytes
\* that are the little-endian unsigned 64-bit encoding of the byte count of
\* the JSON body, then the body: the length field read back as 64 bits equals
\* the body's byte count for every body length, without truncation.
C22_LengthFieldIsBodyLength ==
    frame.written =>
        /\ frame.header = <<90, 66, 88, 68, 1>>
        /\ Len(frame.dataLen) = 8
        /\ \A i \in 1..8 : frame.dataLen[i] \in 0..(Byte - 1)
        /\ Uint64(frame.dataLen) = frame.bodyLen
        /\ frame.body = frame.bodyLen

\* what holds of the length field: it is the body's byte count modulo 2^32
LengthFieldIsLow32Bits ==
    frame.written =>
        Uint64(frame.dataLen) = <<frame.bodyLen[1], frame.bodyLen[2], 0, 0>>

\* a body of exactly 2^32 bytes is announced as empty
FourGiBAnnouncedAsEmpty ==
    /\ frame.written
    /\ frame.bodyLen = <<0, 0, 64, 0>>
    /\ Uint64(frame.dataLen) = <<0, 0, 0, 0>>

\* the exchange of hop h was followed by another exchange of the same drive,
\* made or about to be made
FollowedHops ==
    IF drive.active THEN drive.hops
    ELSE IF ended.valid THEN SubSeq(ended.hops, 1, Len(ended.hops) - 1)
    ELSE <<>>

\* C23: a drive goes on to another exchange only after a response without
\* error whose status is not "success" and whose redirect descriptor is
\* present with a non-empty address. A success response that carries a
\* redirect descriptor ends the drive with success, no exchange with the
\* redirect address is made; a non-success response whose descriptor has an
\* empty address ends it with the same rejection error as one without a
\* descriptor.
C23_RedirectFollowedOnlyWhenUsable ==
    /\ \A i \in 1..Len(FollowedHops) :
          /\ FollowedHops[i].err = Nil
          /\ FollowedHops[i].res.Response # "success"
          /\ FollowedHops[i].res.Redirect.present
          /\ FollowedHops[i].res.Redirect.Address # <<>>
    /\ ended.valid /\ Success(Last(ended.hops)) =>
          /\ ended.err = Nil
          /\ ended.res = Last(ended.hops).res
    /\ ended.valid /\ Last(ended.hops).err = Nil
         /\ Last(ended.hops).res.Response # "success"
         /\ ~UsableRedirect(Last(ended.hops).res) =>
          ended.err = Err("failed without redirect")

\* a drive ended by a success response that carries a redirect to b:1, at an
\* address that is not b:1
C23_Witness ==
    /\ ended.valid
    /\ Success(Last(ended.hops))
    /\ Last(ended.hops).res.Redirect = Redirect(<<"b", ":", "1">>)
    /\ Last(ended.hops).host # <<"b", ":", "1">>
    /\ ended.err = Nil

\* a drive ended by a failed response whose redirect has an empty address
EmptyRedirectRejected ==
    /\ ended.valid
    /\ Last(ended.hops).err = Nil
    /\ Last(ended.hops).res.Response = "failed"
    /\ Last(ended.hops).res.Redirect = Redirect(<<>>)
    /\ ended.err = Err("failed without redirect")

\* C26: whenever Send returns a nil error, the Response it returns has status
\* "success" and is the response of the last exchange made; no Send returns
\* a Response with another status together with a nil error.
C26_NilErrorMeansSuccess ==
    /\ \A k \in 1..Len(sends) :
          sends[k].err = Nil => sends[k].res.Response = "success"
    /\ ended.valid /\ ~drive.active /\ Len(sends) > 0 /\ LastSend.err = Nil =>
          /\ LastSend.res = Last(ended.hops).res
          /\ Last(ended.hops).err = Nil
          /\ Last(LastSend.starts) = ended.startHost
    /\ Returned /\ api.op = "Send" /\ api.err = Nil =>
          api.res.Response = "success"

\* a Send that returned success from its second list address after the
\* cached primary and the first list address had failed
C26_Witness ==
    /\ Returned
    /\ api.op = "Send"
    /\ api.err = Nil
    /\ api.res.Response = "success"
    /\ Len(LastSend.starts) = 3
    /\ LastSend.res = Last(ended.hops).res

\* the addresses of a drive's exchanges
HopHosts(hops) == [i \in 1..Len(hops) |-> hops[i].host]

\* C27: a drive makes at most MaxRedirects + 1 exchanges, cyclic redirects
\* included, and an API call that has begun r Sends has made at most
\* r * (Len(Hosts) + 1) * (MaxRedirects + 1) exchanges: with every exchange
\* returning, every Send returns.
C27_AttemptsAreBounded ==
    /\ drive.active =>
          /\ drive.redirectCount = Len(drive.hops)
          /\ Len(drive.hops) <= MaxRedirects
    /\ ended.valid => Len(ended.hops) <= MaxRedirects + 1
    /\ send.active => Len(send.starts) <= Len(Hosts) + 1
    /\ \A k \in 1..Len(sends) : Len(sends[k].starts) <= Len(Hosts) + 1
    /\ api.attempts <= api.rounds * (Len(Hosts) + 1) * (MaxRedirects + 1)

\* a drive sent from a:10051 to b:1 and from there back to a:10051, ended by
\* the limit
C27_Witness ==
    /\ ended.valid
    /\ HopHosts(ended.hops) = <<normalizeHost(<<"a">>), <<"b", ":", "1">>>>
    /\ ValidRedirect(Last(ended.hops))
    /\ parseHostPort(Last(ended.hops).res.Redirect.Address).addr
          = normalizeHost(<<"a">>)
    /\ ended.err = Err("max redirects exceeded")

\* a Send that made the most exchanges it can: the cached primary and every
\* list address, each redirected MaxRedirects times
MostAttempts ==
    /\ Returned
    /\ api.op = "Send"
    /\ MaxRedirects = MaxMaxRedirects
    /\ Len(Hosts) = MaxHosts
    /\ api.attempts = (Len(Hosts) + 1) * (MaxRedirects + 1)

\* with every sendOnce returning, the API call in progress returns
CallTerminates == (api.pc # "returned") ~> (api.pc = "returned")

\* the fields of the Sender other than PrimaryHost
Configuration ==
    <<Hosts, MaxRedirects, UpdateHost, ConnectTimeout, ReadTimeout, WriteTimeout>>

C25_ConnectionClosedAtReturn ==
    /\ open = 0
    /\ exchange.valid =>
          IF exchange.conn.opened
          THEN exchange.conn.closed /\ exchange.conn.requests = 1
          ELSE ~exchange.conn.closed /\ exchange.conn.requests = 0

\* the second exchange of a SendMetrics, on a connection of its own, failed
\* at the write
C25_Witness ==
    /\ api.op = "SendMetrics"
    /\ api.attempts = 2
    /\ exchange.valid
    /\ exchange.conn = Conn(TRUE, 1, TRUE)
    /\ Last(ended.hops).err = Err("sending the data")
    /\ open = 0

\* the other returns of sendOnce after a connection was opened: read failure,
\* parse failure and success
ClosedAfterReadFailure ==
    /\ exchange.valid /\ exchange.conn = Conn(TRUE, 1, TRUE)
    /\ Last(ended.hops).err = Err("reading the response")
ClosedAfterParseFailure ==
    /\ exchange.valid /\ exchange.conn = Conn(TRUE, 1, TRUE)
    /\ Last(ended.hops).err = Err("not valid")
ClosedAfterSuccess ==
    /\ exchange.valid /\ exchange.conn = Conn(TRUE, 1, TRUE)
    /\ ended.valid /\ Success(Last(ended.hops))
NotOpenedWhenDialFails ==
    /\ exchange.valid /\ exchange.conn = Conn(FALSE, 0, FALSE)
    /\ Last(ended.hops).err = Err("connecting")

\* C28: with two Sends running concurrently on a Sender whose list has only
\* non-empty addresses, every drive starts at a non-empty address.
C28_DriveStartsAtNonEmptyAddress ==
    \A p \in Goroutines :
        race.procs[p].pc = "drive" => race.procs[p].startHost # <<>>

\* a goroutine loaded the pointer after another had cleared the cache, and
\* kept the length it had tested: its drive starts at bytes that are not an
\* address
DriveStartsAtUnknownBytes ==
    \E p \in Goroutines :
        /\ race.procs[p].pc = "drive"
        /\ race.procs[p].startHost = <<"?", "?", "?">>

\* both goroutines have returned and the cache holds the pointer one of them
\* stored with the length the other stored
CacheLeftTorn ==
    /\ \A p \in Goroutines : race.procs[p].pc = "idle"
    /\ PrimaryHost = <<"a", ":", "1">>

====
